---------------------------- MODULE Spec2Model ----------------------------
(* A model of johnhw/compression_curves: the byte encoder, the length-only *)
(* compressors and the normalized compression metric (src/compress.py),    *)
(* and the signal pyramids, the vector quantizer, the cluster-count sweep  *)
(* and the compression-curve assemblers (src/vq.py).                       *)
(*                                                                         *)
(* One call is in flight at a time (the program is single-threaded).  A    *)
(* Call action binds the arguments, the loops of the program advance one   *)
(* iteration per step, and a call ends in pc = "done" (result.kind =       *)
(* "return") or pc = "error" (result.kind = "raise", a Python exception).  *)
EXTENDS Integers, Sequences, FiniteSets, TLC

VARIABLES
    pc,         \* "idle" | "loop" | "whiten" | "cluster" | "sweep" | "ratios" | "surrogate" | "mean" | "done" | "error"
    op,         \* the function called
    args,       \* its arguments
    result,     \* what the call gave back: a returned value or a raised exception
    prev,       \* history: the previous integer_sequence_to_bytes call, <<>> or <<[ls, out]>>
    levels,     \* pyramid_levels
    cur,        \* the working signal of the pyramid loop
    iter,       \* history: iterations of the pyramid loop taken so far
    m_white,    \* vq: the transform bound to m_white, or "unbound"
    all_codes,  \* vq_range: all_codes
    all_dists,  \* vq_range: all_dists
    vq_calls,   \* history: the vq runs made by the sweep, in call order
    z_curve,    \* compression_curve: z_curve
    surr        \* compression_surrogate_curve: the rows of surrogate ratios built so far

vars == <<pc, op, args, result, prev, levels, cur, iter, m_white,
          all_codes, all_dists, vq_calls, z_curve, surr>>

-----------------------------------------------------------------------------
(* Bounds of the model.                                                    *)

\* longest integer sequence handed to the encoder and the compressors
MaxLen == 2
\* longest input signal of a pyramid
MaxSignal == 8
\* iterations of a pyramid loop the model follows (the loop itself has no cap)
MaxIter == 4
\* rows of the matrix handed to the quantizer
MaxRows == 5
\* largest n_surrogates
MaxSurrogates == 2
\* longest sweep ks
MaxKs == 2

\* elements of the integer sequences: below, at and above the one-byte
\* threshold, two-byte values, and one value that fits no width
EncValues == {1, 254, 255, 257, 65535, 65536}
Modes == {"zlib", "lzma", "bz2"}

-----------------------------------------------------------------------------
(* Python values.                                                          *)

Return(v) == [kind |-> "return", exc |-> "", val |-> v]
Raise(e) == [kind |-> "raise", exc |-> e, val |-> <<>>]
NoResult == [kind |-> "none", exc |-> "", val |-> <<>>]

PyInt(n) == [t |-> "int", v |-> n]
PyNone == [t |-> "None", v |-> 0]

SeqsUpTo(S, n) == UNION {[1..k -> S] : k \in 0..n}

RECURSIVE SeqMax(_)
SeqMax(s) ==
    IF Len(s) = 1 THEN s[1]
    ELSE LET r == SeqMax(Tail(s)) IN IF s[1] >= r THEN s[1] ELSE r

RECURSIVE Concat(_)
Concat(ss) == IF ss = <<>> THEN <<>> ELSE Head(ss) \o Concat(Tail(ss))

RECURSIVE Gcd(_, _)
Gcd(a, b) == IF b = 0 THEN a ELSE Gcd(b, a % b)

Abs(x) == IF x < 0 THEN -x ELSE x

\* an exact rational n/d in lowest terms with d > 0 (the value of a float result)
Rat(n, d) ==
    LET g == Gcd(Abs(n), Abs(d))
        s == IF d < 0 THEN -1 ELSE 1
    IN [n |-> s * (n \div g), d |-> s * (d \div g)]

RatAdd(a, b) == Rat(a.n * b.d + b.n * a.d, a.d * b.d)

-----------------------------------------------------------------------------
(* src/compress.py: the byte encoder.                                      *)

\* int(l).to_bytes(width): big-endian (the default byte order), OverflowError
\* when l is negative or does not fit
\* (ToBytesLow: the low byte alone, as a cast to uint8 would give; it is the
\* faulty variant C9 is tested against)
ToBytesLow(l, width) == <<l % 256>>
ToBytes(l, width) ==
    IF width = 1 THEN <<l>> ELSE <<l \div 256, l % 256>>

Fits(l, width) == l >= 0 /\ l < (IF width = 1 THEN 256 ELSE 65536)

\* the width chosen at line 32
\* (EncWidthInclusive: the threshold of the docstring, 0-255 in one byte; the
\* faulty variant C1 is tested against)
EncWidthInclusive(ls) == IF Len(ls) = 0 \/ SeqMax(ls) <= 255 THEN 1 ELSE 2
EncWidth(ls) == IF Len(ls) = 0 \/ SeqMax(ls) < 255 THEN 1 ELSE 2

integer_sequence_to_bytes(ls) ==
    LET w == EncWidth(ls) IN
    IF \E i \in 1..Len(ls) : ~Fits(ls[i], w)
    THEN Raise("OverflowError")
    ELSE Return(Concat([i \in 1..Len(ls) |-> ToBytes(ls[i], w)]))


-----------------------------------------------------------------------------
(* src/compress.py: the length-only compressors.  zlib and lzma are         *)
(* libraries; the two operators below compute the length of the stream the *)
(* library emits for a short input (at most 7 bytes, which is what the     *)
(* bounds of this model produce).                                          *)

\* bits of a literal in deflate's fixed Huffman code
LitBits(b) == IF b < 144 THEN 8 ELSE 9
\* bits of a match length (3..18) and of a match distance (1..32) in that code
LenBits(n) == IF n <= 10 THEN 7 ELSE 8
DistBits(d) == IF d <= 4 THEN 5 ELSE IF d <= 8 THEN 6 ELSE IF d <= 16 THEN 7 ELSE 8

\* the length of the match of the string at p with the earlier string at q
RECURSIVE MatchLen(_, _, _)
MatchLen(s, p, q) ==
    IF p > Len(s) \/ s[p] # s[q] THEN 0 ELSE 1 + MatchLen(s, p + 1, q + 1)

\* zlib's parse of a short input: the longest match of at least 3 bytes with
\* an earlier string, the nearest of the longest, else a literal; the string
\* at the first byte of the input is never a match candidate
RECURSIVE DeflateBits(_, _)
DeflateBits(s, p) ==
    IF p > Len(s) THEN 0
    ELSE LET cands == {q \in 2..(p - 1) : MatchLen(s, p, q) >= 3} IN
         IF cands = {} THEN LitBits(s[p]) + DeflateBits(s, p + 1)
         ELSE LET q == CHOOSE c \in cands : \A e \in cands :
                            \/ MatchLen(s, p, e) < MatchLen(s, p, c)
                            \/ (MatchLen(s, p, e) = MatchLen(s, p, c) /\ e <= c)
                  n == MatchLen(s, p, q)
              IN LenBits(n) + DistBits(p - q) + DeflateBits(s, p + n)

\* len(zlib.compress(s, wbits=-15, level=9)): one final fixed-Huffman block,
\* 3 header bits and the 7-bit end-of-block code, padded to a byte
compress_zlib_len(s) == (3 + DeflateBits(s, 1) + 7 + 7) \div 8

\* len(lzma.compress(s, FORMAT_RAW, delta + LZMA2)): an input this short is
\* stored in one uncompressed LZMA2 chunk (3 header bytes), then the end marker
compress_lzma_len(s) == IF Len(s) = 0 THEN 1 ELSE 3 + Len(s) + 1

compress_len(ls, mode) ==
    LET s == integer_sequence_to_bytes(ls) IN
    IF s.kind = "raise" THEN s
    ELSE IF mode = "zlib" THEN Return(PyInt(compress_zlib_len(s.val)))
    ELSE IF mode = "lzma" THEN Return(PyInt(compress_lzma_len(s.val)))
    ELSE Return(PyNone)

\* len(ls) / (compress_len(ls, mode) - compress_len([], mode)) on Python ints
\* (normalized_compress_len_nobase: without the empty-sequence baseline; the
\* faulty variant C2 is tested against)
normalized_compress_len_nobase(ls, mode) ==
    LET a == compress_len(ls, mode) IN
    IF a.kind = "raise" THEN a
    ELSE IF a.val.t = "None" THEN Raise("TypeError")
    ELSE Return(Rat(Len(ls), a.val.v))
normalized_compress_len(ls, mode) ==
    LET a == compress_len(ls, mode)
        b == compress_len(<<>>, mode)
    IN IF a.kind = "raise" THEN a
       ELSE IF b.kind = "raise" THEN b
       ELSE IF a.val.t = "None" \/ b.val.t = "None" THEN Raise("TypeError")
       ELSE IF a.val.v - b.val.v = 0 THEN Raise("ZeroDivisionError")
       ELSE Return(Rat(Len(ls), a.val.v - b.val.v))

-----------------------------------------------------------------------------
(* src/vq.py: the rational factor and the signal pyramids.                 *)

\* A factor is the exact value n/d it holds, and whether it is a Python
\* float: 2 is [float |-> FALSE, n |-> 2, d |-> 1], 1.5 is [float |-> TRUE,
\* n |-> 3, d |-> 2], 2.0 is [float |-> TRUE, n |-> 2, d |-> 1].
IntFactor(n) == [float |-> FALSE, n |-> n, d |-> 1]
FloatFactor(n, d) == [float |-> TRUE, n |-> n, d |-> d]
Factors == {IntFactor(1), IntFactor(2), IntFactor(3), IntFactor(11),
            FloatFactor(3, 2), FloatFactor(5, 2), FloatFactor(33, 16),
            FloatFactor(2, 1)}
PyramidFactors == Factors \ {IntFactor(11)}
MinLengths == {0, 1, 2}
MaxDenominators == {1, 10}

\* the continued-fraction loop of Fraction.limit_denominator
RECURSIVE Convergents(_, _, _, _, _, _, _)
Convergents(p0, q0, p1, q1, n, d, md) ==
    LET a == n \div d
        q2 == q0 + a * q1
    IN IF q2 > md THEN [p0 |-> p0, q0 |-> q0, p1 |-> p1, q1 |-> q1]
       ELSE Convergents(p1, q1, p0 + a * p1, q2, d, n - a * d, md)

\* Fraction(n, d).limit_denominator(md): the closest fraction to n/d with a
\* denominator of at most md
LimitDenominator(n, d, md) ==
    IF d <= md THEN Rat(n, d)
    ELSE LET c == Convergents(0, 1, 1, 0, n, d, md)
             k == (md - c.q0) \div c.q1
             bound1 == Rat(c.p0 + k * c.p1, c.q0 + k * c.q1)
             bound2 == Rat(c.p1, c.q1)
         IN IF Abs(bound2.n * d - n * bound2.d) * bound1.d
                 <= Abs(bound1.n * d - n * bound1.d) * bound2.d
            THEN bound2 ELSE bound1

\* the pair (up, down); max_denominator is not read, and an integer-valued
\* factor comes back as it was passed (an int, or a float such as 2.0)
get_rational_factor(factor, max_denominator) ==
    IF factor.n % factor.d # 0
    THEN LET f == LimitDenominator(factor.n, factor.d, 10)
         IN [up |-> PyInt(f.n), down |-> PyInt(f.d)]
    ELSE [up |-> PyInt(1),
          down |-> [t |-> IF factor.float THEN "float" ELSE "int",
                    v |-> factor.n \div factor.d]]

\* A sample is <<depth, index>>: the value at position index of a signal
\* that went through depth smoothings.  The values of the Gaussian filter are
\* not computed: a smoothed sample is another value than the sample it
\* replaces, and the filter keeps the length.
Signal(M) == [i \in 1..M |-> <<0, i>>]

\* gaussian_filter1d(signal, std_dev, axis=0)
Smooth(s) == [i \in 1..Len(s) |-> <<s[i][1] + 1, i>>]

\* np.repeat(smoothed_signal, up, axis=0)
Repeat(s, up) == [i \in 1..(Len(s) * up) |-> s[((i - 1) \div up) + 1]]

\* upsampled_signal[::down]
\* (DecimateFloor: upsampled_signal[down-1::down]; the faulty variant C6 is
\* tested against)
DecimateFloor(s, down) == [i \in 1..(Len(s) \div down) |-> s[i * down]]
Decimate(s, down) ==
    [i \in 1..((Len(s) + down - 1) \div down) |-> s[(i - 1) * down + 1]]

\* signal - smoothed_signal
Residual(s, smoothed) ==
    [i \in 1..Len(s) |-> [minuend |-> s[i], subtrahend |-> smoothed[i]]]

-----------------------------------------------------------------------------
(* src/vq.py: the vector quantizer.                                        *)

Whitens == {"standard", "sphere", "minmax", "none", "robust"}
Pcas == {PyNone, PyInt(1)}
Subsamples == {1, 2}
KValues == {1, 2}
\* lines 92-104: the transform bound to m_white.  sklearn has no attribute
\* preprocess (line 102), and no branch binds m_white for another name.
Whiten(whiten, pca) ==
    IF whiten = "sphere" \/ pca.t # "None" THEN Return("PCA")
    ELSE IF whiten = "standard" THEN Return("StandardScaler")
    ELSE IF whiten = "minmax" THEN Raise("AttributeError")
    ELSE IF whiten = "none" THEN Return("identity")
    ELSE Return("unbound")

\* What a clustering of M rows into k clusters may give, as codes and the
\* mean distance np.mean(dists) (0, or a positive value 1): every row in
\* cluster 0, the rows dealt round the clusters, and two blocks of rows.  The
\* centroid search is a library (k-means); its choice among them is open.
Clusterings(M, k) ==
    { [codes |-> [i \in 1..M |-> 0], dist |-> 1],
      [codes |-> [i \in 1..M |-> (i - 1) % k], dist |-> 0],
      [codes |-> [i \in 1..M |-> IF 2 * i <= M THEN 0 ELSE k - 1], dist |-> 0],
      [codes |-> [i \in 1..M |-> IF 2 * i <= M THEN 0 ELSE k - 1], dist |-> 1] }

\* lines 106-112: what vq may give back once m_white is read
Cluster(M, k, white) ==
    IF white = "unbound" THEN {Raise("UnboundLocalError")}
    ELSE {Return(c) : c \in Clusterings(M, k)}

\* vq(m, k, whiten, pca) as one call: the outcomes it may have
vq(M, k, whiten, pca) ==
    LET w == Whiten(whiten, pca) IN
    IF w.kind = "raise" THEN {w} ELSE Cluster(M, k, w.val)

-----------------------------------------------------------------------------
(* src/vq.py: the cluster-count sweep and the compression curves.          *)

SweepWhitens == {"standard", "minmax"}
\* rows of the matrix of a sweep: one row, and the most
SweepRows == {1, MaxRows}

\* all_codes.append(codes)
\* (VqRangePrepend: all_codes.insert(0, codes); the faulty variant C8 is
\* tested against)
VqRangePrepend(all, codes) == <<codes>> \o all
VqRangeAppend(all, codes) == Append(all, codes)

RemoveAt(s, i) == SubSeq(s, 1, i - 1) \o SubSeq(s, i + 1, Len(s))

\* the orders np.random.permutation(code_seq) may give: any element first
\* (equal elements give the same order), then any order of the rest
RECURSIVE Shuffles(_)
Shuffles(s) ==
    IF s = <<>> THEN {<<>>}
    ELSE UNION { LET i == CHOOSE j \in 1..Len(s) : s[j] = v
                 IN {<<v>> \o p : p \in Shuffles(RemoveAt(s, i))}
                 : v \in {s[j] : j \in 1..Len(s)} }

\* normalized_compress_len(np.random.permutation(code_seq)): what it may give
ShuffledRatios(code_seq) ==
    {normalized_compress_len(p, "zlib") : p \in Shuffles(code_seq)}

\* one row of the surrogate table, [... for code_seq in all_codes]: the
\* outcome of a shuffle of each code sequence
RECURSIVE SurrogateRows(_)
SurrogateRows(code_seqs) ==
    IF code_seqs = <<>> THEN {<<>>}
    ELSE { <<r>> \o rest : r \in ShuffledRatios(Head(code_seqs)),
                           rest \in SurrogateRows(Tail(code_seqs)) }

\* a list of outcomes as a list of values, or the first exception in it
Collect(rs) ==
    LET bad == {j \in 1..Len(rs) : rs[j].kind = "raise"}
    IN IF bad # {} THEN rs[CHOOSE j \in bad : \A e \in bad : j <= e]
       ELSE Return([j \in 1..Len(rs) |-> rs[j].val])

\* [normalized_compress_len(code_seq) for code_seq in all_codes]
Ratios(code_seqs) ==
    Collect([j \in 1..Len(code_seqs) |-> normalized_compress_len(code_seqs[j], "zlib")])

RECURSIVE RatSum(_)
RatSum(rs) == IF rs = <<>> THEN Rat(0, 1) ELSE RatAdd(Head(rs), RatSum(Tail(rs)))

\* np.mean(rows, axis=0): NaN (not a sequence) when there is no row
MeanAxis0(rows, n) ==
    IF Len(rows) = 0 THEN "nan"
    ELSE [j \in 1..n |->
            LET t == RatSum([i \in 1..Len(rows) |-> rows[i][j]])
            IN Rat(t.n, t.d * Len(rows))]

-----------------------------------------------------------------------------
(* The state machine.                                                      *)

Ended == pc \in {"done", "error"}
PcOf(r) == IF r.kind = "raise" THEN "error" ELSE "done"

NoLocals ==
    /\ levels' = <<>> /\ cur' = <<>> /\ iter' = 0
    /\ m_white' = "unbound"
    /\ all_codes' = <<>> /\ all_dists' = <<>> /\ vq_calls' = <<>>
    /\ z_curve' = <<>> /\ surr' = <<>>

Init ==
    /\ pc = "idle" /\ op = "" /\ args = [ls |-> <<>>]
    /\ result = NoResult /\ prev = <<>>
    /\ levels = <<>> /\ cur = <<>> /\ iter = 0
    /\ m_white = "unbound"
    /\ all_codes = <<>> /\ all_dists = <<>> /\ vq_calls = <<>>
    /\ z_curve = <<>> /\ surr = <<>>

\* a call of a function that runs to its end in one step
Pure(name, a, r) ==
    /\ op' = name /\ args' = a /\ result' = r /\ pc' = PcOf(r)
    /\ NoLocals

CallEncode(ls) ==
    /\ pc = "idle"
    /\ Pure("integer_sequence_to_bytes", [ls |-> ls], integer_sequence_to_bytes(ls))
    /\ prev' = <<>>

\* a second call of the encoder; the first one is kept as history
CallEncodeAgain(ls) ==
    /\ Ended /\ op = "integer_sequence_to_bytes" /\ prev = <<>>
    /\ Pure("integer_sequence_to_bytes", [ls |-> ls], integer_sequence_to_bytes(ls))
    /\ prev' = <<[ls |-> args.ls, out |-> result]>>

CallCompressLen(ls, mode) ==
    /\ pc = "idle"
    /\ Pure("compress_len", [ls |-> ls, mode |-> mode], compress_len(ls, mode))
    /\ prev' = <<>>

CallNormalizedCompressLen(ls, mode) ==
    /\ pc = "idle"
    /\ Pure("normalized_compress_len", [ls |-> ls, mode |-> mode],
            normalized_compress_len(ls, mode))
    /\ prev' = <<>>

\* the caller takes the result (or the exception); the next call starts afresh
Finish ==
    /\ Ended
    /\ pc' = "idle" /\ op' = "" /\ args' = [ls |-> <<>>]
    /\ result' = NoResult /\ prev' = <<>>
    /\ NoLocals

IsPyramid == op \in {"gaussian_pyramid", "laplacian_pyramid"}

NoSweep ==
    /\ m_white' = "unbound"
    /\ all_codes' = <<>> /\ all_dists' = <<>> /\ vq_calls' = <<>>
    /\ z_curve' = <<>> /\ surr' = <<>>

\* lines 37-39: pyramid_levels = [signal], before the loop
CallGaussianPyramid(M, factor, min_length) ==
    /\ pc = "idle"
    /\ op' = "gaussian_pyramid"
    /\ args' = [signal |-> Signal(M), factor |-> factor, min_length |-> min_length]
    /\ levels' = <<Signal(M)>> /\ cur' = Signal(M) /\ iter' = 0
    /\ pc' = "loop" /\ result' = NoResult /\ prev' = <<>>
    /\ NoSweep

\* lines 55-57: pyramid_levels = [], before the loop
CallLaplacianPyramid(M, factor, min_length) ==
    /\ pc = "idle"
    /\ op' = "laplacian_pyramid"
    /\ args' = [signal |-> Signal(M), factor |-> factor, min_length |-> min_length]
    /\ levels' = <<>> /\ cur' = Signal(M) /\ iter' = 0
    /\ pc' = "loop" /\ result' = NoResult /\ prev' = <<>>
    /\ NoSweep

\* one iteration of the loop of gaussian_pyramid (lines 41-45); a float step
\* in the slice is a TypeError
GaussianStep ==
    /\ pc = "loop" /\ op = "gaussian_pyramid"
    /\ Len(levels[Len(levels)]) > args.min_length
    /\ iter < MaxIter
    /\ LET rf == get_rational_factor(args.factor, 10)
           smoothed_signal == Smooth(levels[Len(levels)])
           upsampled_signal == Repeat(smoothed_signal, rf.up.v)
       IN IF rf.down.t # "int"
          THEN /\ pc' = "error" /\ result' = Raise("TypeError")
               /\ UNCHANGED <<levels, cur>>
          ELSE /\ levels' = Append(levels, Decimate(upsampled_signal, rf.down.v))
               /\ cur' = Decimate(upsampled_signal, rf.down.v)
               /\ UNCHANGED <<pc, result>>
    /\ iter' = iter + 1
    /\ UNCHANGED <<op, args, prev, m_white, all_codes, all_dists, vq_calls, z_curve, surr>>

\* one iteration of the loop of laplacian_pyramid (lines 59-64)
LaplacianStep ==
    /\ pc = "loop" /\ op = "laplacian_pyramid"
    /\ Len(cur) > args.min_length
    /\ iter < MaxIter
    /\ LET rf == get_rational_factor(args.factor, 10)
           smoothed_signal == Smooth(cur)
           upsampled_signal == Repeat(smoothed_signal, rf.up.v)
       IN IF rf.down.t # "int"
          THEN /\ pc' = "error" /\ result' = Raise("TypeError")
               /\ UNCHANGED <<levels, cur>>
          ELSE /\ levels' = Append(levels, Residual(cur, smoothed_signal))
               /\ cur' = Decimate(upsampled_signal, rf.down.v)
               /\ UNCHANGED <<pc, result>>
    /\ iter' = iter + 1
    /\ UNCHANGED <<op, args, prev, m_white, all_codes, all_dists, vq_calls, z_curve, surr>>

\* the loop condition is false: return pyramid_levels
PyramidReturn ==
    /\ pc = "loop" /\ IsPyramid
    /\ ~(Len(cur) > args.min_length)
    /\ pc' = "done" /\ result' = Return(levels)
    /\ UNCHANGED <<op, args, prev, levels, cur, iter, m_white,
                   all_codes, all_dists, vq_calls, z_curve, surr>>

CallGetRationalFactor(factor, max_denominator) ==
    /\ pc = "idle"
    /\ Pure("get_rational_factor",
            [factor |-> factor, max_denominator |-> max_denominator],
            Return(get_rational_factor(factor, max_denominator)))
    /\ prev' = <<>>

IsSweep == op \in {"vq_range", "compression_curve", "compression_surrogate_curve"}

CallVq(M, k, whiten, pca, subsample) ==
    /\ pc = "idle"
    /\ op' = "vq"
    /\ args' = [rows |-> M, k |-> k, whiten |-> whiten, pca |-> pca,
                subsample |-> subsample]
    /\ pc' = "whiten" /\ result' = NoResult /\ prev' = <<>>
    /\ NoLocals

\* lines 92-104
VqWhiten ==
    /\ pc = "whiten" /\ op = "vq"
    /\ LET w == Whiten(args.whiten, args.pca) IN
       IF w.kind = "raise"
       THEN pc' = "error" /\ result' = w /\ UNCHANGED m_white
       ELSE pc' = "cluster" /\ m_white' = w.val /\ UNCHANGED result
    /\ UNCHANGED <<op, args, prev, levels, cur, iter, all_codes, all_dists,
                   vq_calls, z_curve, surr>>

\* lines 106-112
VqCluster ==
    /\ pc = "cluster" /\ op = "vq"
    /\ \E r \in Cluster(args.rows, args.k, m_white) :
          result' = r /\ pc' = PcOf(r)
    /\ UNCHANGED <<op, args, prev, levels, cur, iter, m_white, all_codes,
                   all_dists, vq_calls, z_curve, surr>>

\* vq_range, compression_curve and compression_surrogate_curve all begin
\* with the sweep of vq_range (lines 122-123); whiten is passed on in kwargs
StartSweep(name, a) ==
    /\ pc = "idle"
    /\ op' = name /\ args' = a
    /\ pc' = "sweep" /\ result' = NoResult /\ prev' = <<>>
    /\ NoLocals

CallVqRange(M, ks, whiten) ==
    StartSweep("vq_range", [rows |-> M, ks |-> ks, whiten |-> whiten])

\* n_surrogates is a parameter of compression_curve too, which never reads it
CallCompressionCurve(M, ks, whiten) ==
    StartSweep("compression_curve",
               [rows |-> M, ks |-> ks, n_surrogates |-> 5, whiten |-> whiten])

CallCompressionSurrogateCurve(M, ks, n_surrogates, whiten) ==
    StartSweep("compression_surrogate_curve",
               [rows |-> M, ks |-> ks, n_surrogates |-> n_surrogates,
                whiten |-> whiten])

\* one iteration of for k in ks (lines 124-127): a whole vq run
VqRangeStep ==
    /\ pc = "sweep" /\ IsSweep
    /\ iter < Len(args.ks)
    /\ LET k == args.ks[iter + 1] IN
       \E r \in vq(args.rows, k, args.whiten, PyNone) :
          IF r.kind = "raise"
          THEN /\ pc' = "error" /\ result' = r
               /\ UNCHANGED <<all_codes, all_dists, vq_calls>>
          ELSE /\ all_dists' = Append(all_dists, r.val.dist)
               /\ all_codes' = VqRangeAppend(all_codes, r.val.codes)
               /\ vq_calls' = Append(vq_calls, [k |-> k, codes |-> r.val.codes,
                                                dist |-> r.val.dist])
               /\ UNCHANGED <<pc, result>>
    /\ iter' = iter + 1
    /\ UNCHANGED <<op, args, prev, levels, cur, m_white, z_curve, surr>>

\* line 128: vq_range returns; its callers go on with what it returned
VqRangeReturn ==
    /\ pc = "sweep" /\ IsSweep
    /\ iter = Len(args.ks)
    /\ IF op = "vq_range"
       THEN pc' = "done" /\ result' = Return([all_codes |-> all_codes,
                                               all_dists |-> all_dists])
       ELSE pc' = "ratios" /\ UNCHANGED result
    /\ UNCHANGED <<op, args, prev, levels, cur, iter, m_white, all_codes,
                   all_dists, vq_calls, z_curve, surr>>

\* lines 139-141 and line 155
CurveRatios ==
    /\ pc = "ratios" /\ IsSweep
    /\ LET z == Ratios(all_codes) IN
       IF z.kind = "raise"
       THEN pc' = "error" /\ result' = z /\ UNCHANGED z_curve
       ELSE /\ z_curve' = z.val
            /\ IF op = "compression_curve"
               THEN pc' = "done" /\ result' = Return([z_curve |-> z.val,
                                                       all_dists |-> all_dists])
               ELSE pc' = "surrogate" /\ UNCHANGED result
    /\ UNCHANGED <<op, args, prev, levels, cur, iter, m_white, all_codes,
                   all_dists, vq_calls, surr>>

\* line 156, one i of range(n_surrogates): a row of ratios of shuffled codes
SurrogateRow ==
    /\ pc = "surrogate" /\ op = "compression_surrogate_curve"
    /\ Len(surr) < args.n_surrogates
    /\ \E row \in SurrogateRows(all_codes) :
          LET z == Collect(row) IN
          IF z.kind = "raise"
          THEN pc' = "error" /\ result' = z /\ UNCHANGED surr
          ELSE surr' = Append(surr, z.val) /\ UNCHANGED <<pc, result>>
    /\ UNCHANGED <<op, args, prev, levels, cur, iter, m_white, all_codes,
                   all_dists, vq_calls, z_curve>>

\* line 156, np.mean(..., axis=0), and line 157
SurrogateMean ==
    /\ pc = "surrogate" /\ op = "compression_surrogate_curve"
    /\ Len(surr) = args.n_surrogates
    /\ pc' = "done"
    /\ result' = Return([z_curve |-> z_curve,
                         z_surrogate |-> MeanAxis0(surr, Len(all_codes)),
                         all_dists |-> all_dists])
    /\ UNCHANGED <<op, args, prev, levels, cur, iter, m_white, all_codes,
                   all_dists, vq_calls, z_curve, surr>>

\* calls of src/compress.py
NextCompress ==
    \/ \E ls \in SeqsUpTo(EncValues, MaxLen) : CallEncode(ls)
    \/ \E ls \in SeqsUpTo(EncValues, MaxLen) : CallEncodeAgain(ls)
    \/ \E ls \in SeqsUpTo(EncValues, MaxLen), mode \in Modes : CallCompressLen(ls, mode)
    \/ \E ls \in SeqsUpTo(EncValues, MaxLen), mode \in Modes : CallNormalizedCompressLen(ls, mode)
    \/ Finish

\* calls of the pyramid builders of src/vq.py
NextPyramid ==
    \/ \E f \in Factors, md \in MaxDenominators : CallGetRationalFactor(f, md)
    \/ \E M \in 0..MaxSignal, f \in PyramidFactors, ml \in MinLengths : CallGaussianPyramid(M, f, ml)
    \/ \E M \in 0..MaxSignal, f \in PyramidFactors, ml \in MinLengths : CallLaplacianPyramid(M, f, ml)
    \/ GaussianStep
    \/ LaplacianStep
    \/ PyramidReturn
    \/ Finish

\* calls of the quantizer, the sweep and the curves of src/vq.py
NextQuantize ==
    \/ \E M \in 1..MaxRows, k \in KValues, w \in Whitens, pca \in Pcas, sub \in Subsamples :
          CallVq(M, k, w, pca, sub)
    \/ VqWhiten
    \/ VqCluster
    \/ \E M \in SweepRows, ks \in SeqsUpTo(KValues, MaxKs), w \in SweepWhitens :
          CallVqRange(M, ks, w)
    \/ \E M \in SweepRows, ks \in SeqsUpTo(KValues, MaxKs), w \in SweepWhitens :
          CallCompressionCurve(M, ks, w)
    \/ \E M \in SweepRows, ks \in SeqsUpTo(KValues, MaxKs),
          n \in 0..MaxSurrogates, w \in SweepWhitens :
          CallCompressionSurrogateCurve(M, ks, n, w)
    \/ VqRangeStep
    \/ VqRangeReturn
    \/ CurveRatios
    \/ SurrogateRow
    \/ SurrogateMean
    \/ Finish

Next == NextCompress \/ NextPyramid \/ NextQuantize

\* the whole program, and its three parts on their own
Spec == Init /\ [][Next]_vars
SpecCompress == Init /\ [][NextCompress]_vars
SpecPyramid == Init /\ [][NextPyramid]_vars
SpecQuantize == Init /\ [][NextQuantize]_vars

-----------------------------------------------------------------------------
(* Properties.                                                             *)

EncodeEnded == op = "integer_sequence_to_bytes" /\ Ended

C3_UnknownModeRejected ==
    (op = "compress_len" /\ Ended /\ args.mode \notin {"zlib", "lzma"}) =>
        result.kind = "raise"

BothEncoded ==
    /\ EncodeEnded /\ prev # <<>>
    /\ result.kind = "return" /\ prev[1].out.kind = "return"

\* C9 as claimed: two different sequences of integers in 0..65535 never
\* have the same byte string.
C9_Injective ==
    (BothEncoded /\ prev[1].ls # args.ls) => prev[1].out.val # result.val

\* C9 as amended: two different sequences of integers in 0..65535 with the
\* same number of elements never have the same byte string.
C9_InjectiveGivenCount ==
    (BothEncoded /\ prev[1].ls # args.ls /\ Len(prev[1].ls) = Len(args.ls)) =>
        prev[1].out.val # result.val

\* C9, witness: two sequences of the same length, one at each width, encoded.
C9_Witness ==
    /\ BothEncoded
    /\ prev[1].ls = <<1, 254>> /\ args.ls = <<1, 255>>
    /\ prev[1].out.val # result.val

ValidWhitens == {"standard", "sphere", "minmax", "none"}

\* C4: in vq, for every whiten and pca, whitening succeeds and clustering is
\* reached if and only if whiten is "standard", "sphere", "minmax" or "none".
C4_WhitenIffValid ==
    (op = "vq" /\ pc \in {"cluster", "done", "error"}) =>
        (args.whiten \in ValidWhitens
            <=> (pc = "done" \/ (pc = "cluster" /\ m_white # "unbound")))

FactorAboveOne == args.factor.n > args.factor.d

\* C5: with factor > 1 and min_length >= 1 the length of the working signal
\* strictly decreases on every iteration of a pyramid loop.
C5_LengthDecreases ==
    [][(IsPyramid /\ pc = "loop" /\ pc' = "loop"
          /\ FactorAboveOne /\ args.min_length >= 1)
       => Len(cur') < Len(cur)]_vars

CeilLog2(M) ==
    CHOOSE n \in 0..M : 2^n >= M /\ \A m \in 0..(n - 1) : 2^m < M

\* C6: for factor=2, min_length=1 and a signal of length M >= 1,
\* gaussian_pyramid returns ceil(log2(M)) + 1 levels, the first of which is
\* the input signal.
C6_LevelCount ==
    (op = "gaussian_pyramid" /\ pc = "done" /\ args.factor = IntFactor(2)
        /\ args.min_length = 1 /\ Len(args.signal) >= 1) =>
        /\ Len(result.val) = CeilLog2(Len(args.signal)) + 1
        /\ result.val[1] = args.signal

\* C6, witness: a signal of 5 samples gave 4 levels.
C6_Witness ==
    /\ op = "gaussian_pyramid" /\ pc = "done" /\ args.factor = IntFactor(2)
    /\ args.min_length = 1 /\ Len(args.signal) = 5 /\ Len(result.val) = 4

\* C7: a pyramid called with factor = 1 or min_length < 1 never iterates a
\* loop in which the length of the signal does not decrease.
C7_DegenerateNeverLoops ==
    [][(IsPyramid /\ pc = "loop" /\ pc' = "loop"
          /\ (args.factor.n = args.factor.d \/ args.min_length < 1))
       => Len(cur') < Len(cur)]_vars

\* C10: for factor > 1 and max_denominator >= 1, get_rational_factor returns
\* integers (up, down) with down <= max_denominator and up/down the
\* approximation of factor, for integer and non-integer factors alike.
C10_RationalApproximation ==
    (op = "get_rational_factor" /\ pc = "done" /\ FactorAboveOne) =>
        LET r == result.val
            best == LimitDenominator(args.factor.n, args.factor.d,
                                     args.max_denominator)
        IN /\ r.up.t = "int" /\ r.down.t = "int"
           /\ r.down.v <= args.max_denominator
           /\ r.up.v * best.d = best.n * r.down.v

=============================================================================
